---- MODULE Spec2Model ----
(***************************************************************************)
(* Model of the obj_to_u3d scripts: OBJ/STL -> (IDTF) -> U3D -> PDF.       *)
(*                                                                         *)
(* Every script is a sequential program.  Its position is pc, its         *)
(* command line and the outcomes of the external tools it meets are args,  *)
(* the files it touches are fs, the process environment is environ, the    *)
(* subprocesses and exports it has launched are log, its locals are ret    *)
(* and its exit status is exitStatus.                                      *)
(***************************************************************************)
EXTENDS Integers, Sequences, FiniteSets, TLC

VARIABLES script, pc, args, fs, environ, exitStatus, log, ret

vars == <<script, pc, args, fs, environ, exitStatus, log, ret>>

(***************************************************************************)
(* Bounds of the model.                                                    *)
(***************************************************************************)
MaxVertices == 4
MaxFaces == 3

(***************************************************************************)
(* Files.  A file is a record: kind says where its content comes from,     *)
(* data is its content (bytes of a U3D file, lines of an IDTF file).       *)
(***************************************************************************)
Absent == [kind |-> "absent", data |-> <<>>]
File(kind, data) == [kind |-> kind, data |-> data]
Exists(f, p) == f[p].kind # "absent"
GetSize(f, p) == Len(f[p].data)

Paths == {"input", "stl", "idtf", "u3d", "pdf", "script", "temp_dir", "temp_obj",
          "temp_pdf", "dummy_u3d", "test_u3d"}
EmptyFs == [p \in Paths |-> Absent]

Unset == "<unset>"
NoEnviron == [LC_ALL |-> Unset, LANG |-> Unset]

(***************************************************************************)
(* The IDTF text of create_idtf_from_obj, as the sequence of its lines.    *)
(* A line is a record: t is its shape, k its keyword or list, n its        *)
(* number (the value of a count, the index of an entry, the number of      *)
(* brace characters of a line that opens or closes a block) and v the      *)
(* payload of an entry.                                                    *)
(***************************************************************************)
Line(t, k, n, v) == [t |-> t, k |-> k, n |-> n, v |-> v]
Text(k) == Line("text", k, 0, <<>>)
Count(k, n) == Line("count", k, n, <<>>)
Open(k, braces) == Line("open", k, braces, <<>>)
Close(braces) == Line("close", "", braces, <<>>)
Entry(k, i, v) == Line("entry", k, i, v)

\* Python's range(n) mapped through f: the lines a loop writes.
Range(n, f(_)) == [j \in 1..n |-> f(j - 1)]

Mesh(V, F) ==
    [vertex_number |-> V, face_number |-> F,
     vertex_matrix |-> [i \in 0..(V - 1) |-> <<i, i + 1, 0>>],
     face_matrix |-> [i \in 0..(F - 1) |-> <<i % V, (i + 1) % V, (i + 2) % V>>]]

\* A mesh has no face without three vertices to refer to.
Meshes == {Mesh(V, F) : V \in {0} \cup 3..MaxVertices, F \in {0}} \cup
          {Mesh(V, F) : V \in 3..MaxVertices, F \in 1..MaxFaces}

\* NODE "MODEL" { ... }: written with single braces by both texts.
IdtfNode ==
    << Text("FILE_FORMAT"), Text("FORMAT_VERSION"),
       Open("NODE", 1), Text("NODE_NAME"),
       Open("PARENT_LIST", 1), Count("PARENT_COUNT", 1),
       Open("PARENT", 1), Text("PARENT_NAME"),
       Open("PARENT_TM", 1), Text("row"), Text("row"), Text("row"), Text("row"),
       Close(1), Close(1), Close(1),
       Text("RESOURCE_NAME"), Close(1) >>

\* RESOURCE_LIST "MODEL" { ... down to the opening of MESH_FACE_POSITION_LIST.
IdtfMeshHead(face_count, vertex_count) ==
    << Open("RESOURCE_LIST", 1), Count("RESOURCE_COUNT", 1),
       Open("RESOURCE", 1), Text("RESOURCE_NAME"), Text("MODEL_TYPE"),
       Open("MESH", 1),
       Count("FACE_COUNT", face_count),
       Count("MODEL_POSITION_COUNT", vertex_count),
       Count("MODEL_NORMAL_COUNT", vertex_count),
       Count("MODEL_TEXCOORD_COUNT", 0),
       Count("MODEL_BONE_COUNT", 0),
       Count("MODEL_SHADING_COUNT", 1),
       Open("MODEL_SHADING_DESCRIPTION_LIST", 1),
       Open("SHADING_DESCRIPTION", 1),
       Count("TEXTURE_LAYER_COUNT", 0), Count("SHADER_ID", 0),
       Close(1), Close(1),
       Open("MESH_FACE_POSITION_LIST", 1) >>

\* The first write: an f-string, in which "{{" and "}}" stand for one brace.
IdtfHeader(face_count, vertex_count) ==
    IdtfNode \o IdtfMeshHead(face_count, vertex_count)

\* The writes between the loops are plain strings: their "}}" and "{{" are
\* written as they stand, two braces each.
IdtfNextList(k) == << Close(2), Open(k, 2) >>

\* The last write, a plain string as well.
IdtfTrailer ==
    << Close(2), Close(2), Close(2), Close(2),
       Open("RESOURCE_LIST", 2), Count("RESOURCE_COUNT", 1),
       Open("RESOURCE", 2), Text("RESOURCE_NAME"),
       Text("ATTRIBUTE_USE_VERTEX_COLOR"), Text("SHADER_MATERIAL_NAME"),
       Count("SHADER_ACTIVE_TEXTURE_COUNT", 0),
       Close(2), Close(2),
       Open("RESOURCE_LIST", 2), Count("RESOURCE_COUNT", 1),
       Open("RESOURCE", 2), Text("RESOURCE_NAME"),
       Text("MATERIAL_AMBIENT"), Text("MATERIAL_DIFFUSE"),
       Text("MATERIAL_SPECULAR"), Text("MATERIAL_EMISSIVE"),
       Text("MATERIAL_REFLECTIVITY"), Text("MATERIAL_OPACITY"),
       Close(2), Close(2) >>

FaceLines(faces) ==
    Range(Len(faces), LAMBDA i : Entry("MESH_FACE_POSITION_LIST", i, faces[i + 1]))
ShadingLines(face_count) ==
    Range(face_count, LAMBDA i : Entry("MESH_FACE_SHADING_LIST", i, <<0>>))
FaceNormalLines(face_count) ==
    Range(face_count, LAMBDA i : Entry("MESH_FACE_NORMAL_LIST", i, <<0, 0, 0>>))
PositionLines(vertices) ==
    Range(Len(vertices), LAMBDA i : Entry("MODEL_POSITION_LIST", i, vertices[i + 1]))
NormalLines(vertex_count) ==
    Range(vertex_count, LAMBDA i : Entry("MODEL_NORMAL_LIST", i, <<0, 0, 1>>))

\* A variant that writes one normal per face where the code writes one per
\* vertex.
IdtfNormalTextPerFace(mesh) ==
    LET vertex_count == mesh.vertex_number
        face_count == mesh.face_number
        vertices == Range(vertex_count, LAMBDA i : mesh.vertex_matrix[i])
        faces == Range(face_count, LAMBDA i : mesh.face_matrix[i])
    IN  IdtfHeader(face_count, vertex_count)
        \o FaceLines(faces)
        \o IdtfNextList("MESH_FACE_SHADING_LIST") \o ShadingLines(face_count)
        \o IdtfNextList("MESH_FACE_NORMAL_LIST") \o FaceNormalLines(face_count)
        \o IdtfNextList("MODEL_POSITION_LIST") \o PositionLines(vertices)
        \o IdtfNextList("MODEL_NORMAL_LIST") \o NormalLines(face_count)
        \o IdtfTrailer

\* The text of the normal path of create_idtf_from_obj.
IdtfNormalText(mesh) ==
    LET vertex_count == mesh.vertex_number
        face_count == mesh.face_number
        vertices == Range(vertex_count, LAMBDA i : mesh.vertex_matrix[i])
        faces == Range(face_count, LAMBDA i : mesh.face_matrix[i])
    IN  IdtfHeader(face_count, vertex_count)
        \o FaceLines(faces)
        \o IdtfNextList("MESH_FACE_SHADING_LIST") \o ShadingLines(face_count)
        \o IdtfNextList("MESH_FACE_NORMAL_LIST") \o FaceNormalLines(face_count)
        \o IdtfNextList("MODEL_POSITION_LIST") \o PositionLines(vertices)
        \o IdtfNextList("MODEL_NORMAL_LIST") \o NormalLines(vertex_count)
        \o IdtfTrailer

\* The hard-coded fallback text: one triangle, single braces throughout.
IdtfFallbackText ==
    IdtfNode \o IdtfMeshHead(1, 3)
    \o << Entry("MESH_FACE_POSITION_LIST", 0, <<0, 1, 2>>) >>
    \o << Close(1), Open("MESH_FACE_SHADING_LIST", 1),
          Entry("MESH_FACE_SHADING_LIST", 0, <<0>>) >>
    \o << Close(1), Open("MESH_FACE_NORMAL_LIST", 1),
          Entry("MESH_FACE_NORMAL_LIST", 0, <<0, 0, 0>>) >>
    \o << Close(1), Open("MODEL_POSITION_LIST", 1),
          Entry("MODEL_POSITION_LIST", 0, <<0, 0, 0>>),
          Entry("MODEL_POSITION_LIST", 1, <<1, 0, 0>>),
          Entry("MODEL_POSITION_LIST", 2, <<0, 1, 0>>) >>
    \o << Close(1), Open("MODEL_NORMAL_LIST", 1),
          Entry("MODEL_NORMAL_LIST", 0, <<0, 0, 1>>),
          Entry("MODEL_NORMAL_LIST", 1, <<0, 0, 1>>),
          Entry("MODEL_NORMAL_LIST", 2, <<0, 0, 1>>) >>
    \o << Close(1), Close(1), Close(1), Close(1),
          Open("RESOURCE_LIST", 1), Count("RESOURCE_COUNT", 1),
          Open("RESOURCE", 1), Text("RESOURCE_NAME"),
          Text("ATTRIBUTE_USE_VERTEX_COLOR"), Text("SHADER_MATERIAL_NAME"),
          Count("SHADER_ACTIVE_TEXTURE_COUNT", 0),
          Close(1), Close(1),
          Open("RESOURCE_LIST", 1), Count("RESOURCE_COUNT", 1),
          Open("RESOURCE", 1), Text("RESOURCE_NAME"),
          Text("MATERIAL_AMBIENT"), Text("MATERIAL_DIFFUSE"),
          Text("MATERIAL_SPECULAR"), Text("MATERIAL_EMISSIVE"),
          Text("MATERIAL_REFLECTIVITY"), Text("MATERIAL_OPACITY"),
          Close(1), Close(1) >>

(***************************************************************************)
(* create_idtf_from_obj(obj_file, idtf_file).  e says what the calls it    *)
(* makes meet: e.mesh is the mesh pymeshlab loads (e.loads says whether    *)
(* loading succeeds), e.opens whether idtf_file opens for writing.  An     *)
(* exception leads to the except branch, which writes the fallback text,   *)
(* unless that fails as well.  The result is the file system afterwards    *)
(* and the path taken.                                                     *)
(***************************************************************************)
create_idtf_from_obj(f, e) ==
    IF e.loads /\ e.opens
    THEN [fs |-> [f EXCEPT !["idtf"] = File("idtf", IdtfNormalText(e.mesh))],
          path |-> "normal"]
    ELSE IF e.opens
    THEN [fs |-> [f EXCEPT !["idtf"] = File("idtf_fallback", IdtfFallbackText)],
          path |-> "fallback"]
    ELSE [fs |-> f, path |-> "failed"]

IdtfEnvs == [mesh : Meshes, loads : BOOLEAN, opens : BOOLEAN, stale : BOOLEAN]

(***************************************************************************)
(* Bytes.  bytes.fromhex reads two hexadecimal digits per byte; a hex      *)
(* string is modelled as the sequence of the values of its digits.         *)
(***************************************************************************)
HexBase == 16
FromHex(hex) == [i \in 1..(Len(hex) \div 2) |-> HexBase * hex[2 * i - 1] + hex[2 * i]]

Prefix(s, n) == [i \in 1..(IF Len(s) < n THEN Len(s) ELSE n) |-> s[i]]

\* b'U3D\x00'
U3dMagic == <<85, 51, 68, 0>>

\* The hex string of create_placeholder_u3d, one line of the source per line.
PlaceholderHex ==
    <<5, 5, 3, 3, 4, 4, 0, 0>>
    \o <<0, 0, 0, 0, 0, 0, 0, 0>>
    \o <<0, 0, 0, 0, 0, 0, 0, 0>>
    \o <<0, 0, 0, 0, 0, 1, 0, 0>>
    \o <<0, 0, 0, 0, 0, 0, 0, 0>>
    \o <<15, 15, 15, 15, 15, 15, 15, 15>>
    \o <<0, 0, 0, 0, 0, 0, 0, 0>>
    \o <<0, 0, 0, 0, 0, 0, 2, 0>>
    \o <<15, 15, 15, 15, 15, 15, 15, 15>>
    \o <<15, 15, 0, 0, 0, 0, 0, 0>>
    \o <<0, 0, 0, 0, 0, 0, 0, 0>>
    \o <<0, 0, 0, 0, 0, 0, 0, 0>>
    \o <<0, 0, 0, 0, 0, 0, 3, 0>>
    \o <<0, 0, 0, 0, 0, 0, 0, 0>>
    \o <<0, 1, 0, 0, 0, 0, 0, 0>>
    \o <<0, 0, 0, 0, 0, 0, 0, 0, 0, 0, 0, 0, 0, 0, 0, 0>>
    \o <<0, 0, 0, 0, 0, 0, 0, 10, 0, 0, 0, 0, 0, 0, 0, 0>>
    \o <<12, 13, 12, 12, 4, 12, 3, 14, 12, 13, 12, 12, 4, 12, 3, 14>>
    \o <<0, 0, 0, 0, 8, 0, 3, 15, 0, 0, 0, 0, 0, 0, 0, 0>>
    \o <<0, 0, 0, 0, 0, 0, 0, 0, 0, 0, 0, 0, 0, 0, 0, 0>>
    \o <<0, 1, 0, 0, 0, 0, 0, 0>>
    \o <<0, 0, 0, 0, 0, 0, 0, 0, 0, 0, 0, 0, 0, 0, 0, 0>>
    \o <<0, 1, 0, 0, 0, 0, 0, 0, 0, 0, 0, 0, 0, 0, 0, 0>>

\* The hex string of create_dummy_u3d.
DummyHex ==
    <<5, 5, 3, 3, 4, 4, 0, 0>>
    \o <<0, 0, 0, 0, 0, 0, 0, 0>>
    \o <<15, 15, 15, 15, 15, 15, 15, 15>>
    \o <<0, 0, 0, 0, 0, 0, 6, 9>>
    \o <<0, 0, 0, 0, 0, 0, 0, 12>>
    \o <<0, 0, 0, 0, 0, 0, 2, 0>>
    \o <<15, 15, 15, 15, 15, 15, 15, 15, 15, 15, 0, 0, 0, 0, 0, 1>>
    \o <<0, 0, 0, 0, 0, 0, 0, 0, 0, 0, 0, 0, 0, 0, 0, 0>>
    \o <<0, 0, 0, 0, 0, 0, 1, 0, 0, 0, 0, 0, 0, 0, 0, 0>>
    \o <<0, 0, 0, 0, 0, 0, 0, 0, 0, 0, 0, 0, 0, 0, 0, 0>>
    \o <<0, 0, 0, 0, 0, 0, 0, 0, 0, 0, 0, 0, 0, 0, 0, 0>>
    \o <<0, 0, 0, 0, 0, 0, 0, 0, 0, 0, 0, 0, 0, 0, 0, 0>>

\* What an external converter or a library export writes for the input
\* mesh: some U3D file that is neither of the hard-coded ones.
ConvertedU3d == U3dMagic \o [i \in 1..128 |-> i]
\* What IDTFConverter compiles from the hard-coded one-triangle IDTF text.
SubstituteU3d == U3dMagic \o [i \in 1..128 |-> 1]

(***************************************************************************)
(* create_placeholder_u3d(output_path): writes the hard-coded bytes and    *)
(* returns True; open() raises when the path cannot be written.            *)
(***************************************************************************)
\* A variant that writes the 72 bytes of create_dummy_u3d.
create_placeholder_u3d_dummy_bytes(f, output_path, writable) ==
    IF writable
    THEN [fs |-> [f EXCEPT ![output_path] = File("placeholder", FromHex(DummyHex))],
          ret |-> "True"]
    ELSE [fs |-> f, ret |-> "raise"]

create_placeholder_u3d(f, output_path, writable) ==
    IF writable
    THEN [fs |-> [f EXCEPT ![output_path] = File("placeholder", FromHex(PlaceholderHex))],
          ret |-> "True"]
    ELSE [fs |-> f, ret |-> "raise"]

(***************************************************************************)
(* create_dummy_u3d(output_path): the same with its own bytes; it catches  *)
(* the exception and returns False.                                        *)
(***************************************************************************)
create_dummy_u3d(f, output_path, writable) ==
    IF writable
    THEN [fs |-> [f EXCEPT ![output_path] = File("dummy", FromHex(DummyHex))],
          ret |-> "True"]
    ELSE [fs |-> f, ret |-> "False"]

(***************************************************************************)
(* is_valid_u3d(u3d_file).  A missing file raises inside the try: False.   *)
(* A header that differs from the magic bytes is only warned about.        *)
(***************************************************************************)
HeaderLen == 32
MinU3dSize == 100

MagicMatches(header) == Prefix(header, 4) = U3dMagic

is_valid_u3d(f, u3d_file) ==
    IF ~Exists(f, u3d_file) THEN FALSE
    ELSE LET header == Prefix(f[u3d_file].data, HeaderLen)
             file_size == GetSize(f, u3d_file)
         IN  IF Len(header) < HeaderLen THEN FALSE
             ELSE IF file_size < MinU3dSize THEN FALSE
             ELSE TRUE

(***************************************************************************)
(* Tool discovery.                                                         *)
(***************************************************************************)
None == "None"

\* find_blender: the candidates in the order of blender_paths.
blender_paths ==
    << "/Applications/Blender.app/Contents/MacOS/blender",
       "C:\\Program Files\\Blender Foundation\\Blender\\blender.exe",
       "/usr/bin/blender",
       "blender" >>

\* What running [path, "--version"] can meet: the executable is missing
\* (FileNotFoundError, PermissionError), it exits non-zero, it exits 0 and
\* prints something else, it exits 0 and prints "Blender".
VersionOutcomes == {"missing", "fail", "other", "blender"}

\* returncode == 0 and "Blender" in stdout
BlenderAccepts(outcome) == outcome = "blender"

\* The result is the value returned and the version commands run, in order.
RECURSIVE BlenderScan(_, _, _)
BlenderScan(i, probe, ran) ==
    IF i > Len(blender_paths) THEN [value |-> None, probes |-> ran]
    ELSE LET path == blender_paths[i]
             ran2 == Append(ran, [cmd |-> path, outcome |-> probe[path]])
         IN  IF BlenderAccepts(probe[path])
             THEN [value |-> path, probes |-> ran2]
             ELSE BlenderScan(i + 1, probe, ran2)

find_blender(probe) == BlenderScan(1, probe, <<>>)

\* find_idtf_converter: a candidate path is a directory, a name and a
\* suffix; glob says whether the directory holds a "*".
Candidate(dir, name, glob) == [dir |-> dir, name |-> name, suffix |-> "", glob |-> glob]
Str(c) == c.dir \o c.name \o c.suffix

possible_paths ==
    << Candidate("~/bin/", "IDTFConverter", FALSE),
       Candidate("/usr/local/bin/", "IDTFConverter", FALSE),
       Candidate("/usr/bin/", "IDTFConverter", FALSE),
       Candidate("./", "IDTFConverter", FALSE),
       Candidate("./tools/", "IDTFConverter", FALSE),
       Candidate("/opt/homebrew/bin/", "IDTFConverter", FALSE),
       Candidate("/usr/local/lib/ruby/gems/*/bin/", "u3d", TRUE),
       Candidate("~/.gem/ruby/*/bin/", "u3d", TRUE),
       Candidate("~/.rbenv/shims/", "u3d", FALSE) >>

\* path.with_suffix(".exe")
WithSuffixExe(c) == [c EXCEPT !.suffix = ".exe"]
\* "IDTFConverter" in str(path)
NamesIdtfConverter(c) == c.name = "IDTFConverter"

\* The loop that adds the .exe variants appends to the list it iterates.
\* The result says whether the loop came to the end of the list within
\* `fuel` iterations.
MaxLoopSteps == 40

RECURSIVE AddExeVariants(_, _, _)
AddExeVariants(paths, i, fuel) ==
    IF i > Len(paths) THEN [ended |-> TRUE, paths |-> paths]
    ELSE IF fuel = 0 THEN [ended |-> FALSE, paths |-> paths]
    ELSE AddExeVariants(IF NamesIdtfConverter(paths[i])
                        THEN Append(paths, WithSuffixExe(paths[i]))
                        ELSE paths,
                        i + 1, fuel - 1)

\* The first match of a glob that exists and is executable, or None.
RECURSIVE FirstUsableMatch(_, _)
FirstUsableMatch(matches, j) ==
    IF j > Len(matches) THEN None
    ELSE IF matches[j].usable THEN matches[j].path
    ELSE FirstUsableMatch(matches, j + 1)

\* e.present: the plain paths that exist and are executable; e.globbed: what
\* glob.glob returns for each pattern.
RECURSIVE PathScan(_, _, _)
PathScan(paths, i, e) ==
    IF i > Len(paths) THEN None
    ELSE IF paths[i].glob
    THEN LET m == FirstUsableMatch(e.globbed[Str(paths[i])], 1)
         IN  IF m # None THEN m ELSE PathScan(paths, i + 1, e)
    ELSE IF Str(paths[i]) \in e.present THEN Str(paths[i])
    ELSE PathScan(paths, i + 1, e)

Hang == "<never returns>"

\* The version commands find_idtf_converter runs: u3d, and IDTFConverter
\* when u3d did not answer with exit status 0.
IdtfConverterProbes(e) ==
    << [cmd |-> "u3d", outcome |-> e.u3d] >>
    \o (IF e.u3d = "ok" THEN <<>>
        ELSE << [cmd |-> "IDTFConverter", outcome |-> e.idtfconverter] >>)

\* A variant that looks at the paths before it asks the commands.
find_idtf_converter_paths_first(e) ==
    LET found == PathScan(possible_paths, 1, e)
    IN  [value |-> IF found # None THEN found
                   ELSE IF e.u3d = "ok" THEN "u3d"
                   ELSE IF e.idtfconverter = "ok" THEN "IDTFConverter"
                   ELSE None,
         probes |-> IdtfConverterProbes(e)]

\* e.u3d and e.idtfconverter: what ["u3d", "-version"] and
\* ["IDTFConverter", "--version"] meet: "missing" (FileNotFoundError),
\* "fail" (a non-zero exit status) or "ok" (exit status 0).
find_idtf_converter(e) ==
    [value |->
        IF e.u3d = "ok" THEN "u3d"
        ELSE IF e.idtfconverter = "ok" THEN "IDTFConverter"
        ELSE IF e.platform = "win32"
        THEN LET grown == AddExeVariants(possible_paths, 1, MaxLoopSteps)
             IN  IF grown.ended THEN PathScan(grown.paths, 1, e) ELSE Hang
        ELSE PathScan(possible_paths, 1, e),
     probes |-> IdtfConverterProbes(e)]

\* The environments of the discovery functions.
RunOutcomes == {"missing", "fail", "ok"}
PlainPaths == {Str(possible_paths[i]) : i \in {j \in 1..Len(possible_paths) : ~possible_paths[j].glob}}
GlobPatterns == {Str(possible_paths[i]) : i \in {j \in 1..Len(possible_paths) : possible_paths[j].glob}}
Match(path, usable) == [path |-> path, usable |-> usable]
GlobResults(pattern) ==
    { <<>>,
      << Match(pattern \o "#1", FALSE) >>,
      << Match(pattern \o "#1", TRUE) >>,
      << Match(pattern \o "#1", FALSE), Match(pattern \o "#2", TRUE) >> }
Globbings == {g \in [GlobPatterns -> UNION {GlobResults(q) : q \in GlobPatterns}] :
                \A q \in GlobPatterns : g[q] \in GlobResults(q)}
BlenderEnvs == [probe : [{blender_paths[i] : i \in 1..Len(blender_paths)} -> VersionOutcomes]]
IdtfConverterEnvs ==
    [u3d : RunOutcomes, idtfconverter : RunOutcomes, platform : {"linux", "win32"},
     present : SUBSET PlainPaths, globbed : Globbings]

(***************************************************************************)
(* SpecFind: the two discovery functions, each applied to an environment.  *)
(***************************************************************************)
InitFind ==
    /\ script \in {"find_blender", "find_idtf_converter"}
    /\ pc = "call"
    /\ args \in (IF script = "find_blender" THEN BlenderEnvs ELSE IdtfConverterEnvs)
    /\ fs = EmptyFs
    /\ environ = NoEnviron
    /\ exitStatus = "running"
    /\ log = <<>>
    /\ ret = [value |-> None]

FindBlender ==
    /\ script = "find_blender" /\ pc = "call"
    /\ LET r == find_blender(args.probe)
       IN  /\ ret' = [value |-> r.value]
           /\ log' = r.probes
    /\ pc' = "returned"
    /\ UNCHANGED <<script, args, fs, environ, exitStatus>>

FindIdtfConverter ==
    /\ script = "find_idtf_converter" /\ pc = "call"
    /\ LET r == find_idtf_converter(args)
       IN  /\ ret' = [value |-> r.value]
           /\ log' = r.probes
           /\ pc' = IF r.value = Hang THEN "hang" ELSE "returned"
    /\ UNCHANGED <<script, args, fs, environ, exitStatus>>

NextFind == FindBlender \/ FindIdtfConverter

SpecFind == InitFind /\ [][NextFind]_vars

(***************************************************************************)
(* SpecIdtf: create_idtf_from_obj applied to a mesh.                       *)
(***************************************************************************)
InitIdtf ==
    /\ script = "create_idtf_from_obj"
    /\ pc = "call"
    /\ args \in IdtfEnvs
    /\ fs = [EmptyFs EXCEPT !["temp_obj"] = File("mesh", <<>>),
                            !["idtf"] = IF args.stale THEN File("stale", <<>>) ELSE Absent]
    /\ environ = NoEnviron
    /\ exitStatus = "running"
    /\ log = <<>>
    /\ ret = [path |-> None]

CreateIdtfFromObj ==
    /\ script = "create_idtf_from_obj" /\ pc = "call"
    /\ LET r == create_idtf_from_obj(fs, args)
       IN  /\ fs' = r.fs
           /\ ret' = [path |-> r.path]
    /\ pc' = "returned"
    /\ UNCHANGED <<script, args, environ, exitStatus, log>>

NextIdtf == CreateIdtfFromObj

SpecIdtf == InitIdtf /\ [][NextIdtf]_vars

(***************************************************************************)
(* Reading an IDTF text back.                                              *)
(***************************************************************************)
\* The values of the count lines with keyword k.
CountValues(text, k) == {text[i].n : i \in {j \in 1..Len(text) : text[j].t = "count" /\ text[j].k = k}}
\* The lines that open a block named k.
OpensOf(text, k) == {i \in 1..Len(text) : text[i].t = "open" /\ text[i].k = k}
\* The entries that follow line p, up to the first line that is no entry.
EntriesAfter(text, p) ==
    LET stop == CHOOSE q \in (p + 1)..(Len(text) + 1) :
                    /\ q = Len(text) + 1 \/ text[q].t # "entry"
                    /\ \A r \in (p + 1)..(q - 1) : text[r].t = "entry"
    IN  SubSeq(text, p + 1, stop - 1)
\* The list named k holds exactly n entries, indexed 0..n-1 in this order.
ListHas(text, k, n) ==
    /\ Cardinality(OpensOf(text, k)) = 1
    /\ \A p \in OpensOf(text, k) :
          LET es == EntriesAfter(text, p)
          IN  /\ Len(es) = n
              /\ \A j \in 1..n : es[j].n = j - 1
EntryCount(text) == Cardinality({i \in 1..Len(text) : text[i].t = "entry"})

IdtfDone == script = "create_idtf_from_obj" /\ pc = "returned"

\* C2: on the normal path of create_idtf_from_obj the text holds FACE_COUNT F,
\* MODEL_POSITION_COUNT V and MODEL_NORMAL_COUNT V, the three face lists hold
\* exactly F entries indexed 0..F-1 and the two vertex lists exactly V entries
\* indexed 0..V-1 (and there is no other entry in the text).
C2_CountsMatchLists ==
    (IdtfDone /\ ret.path = "normal") =>
        LET text == fs["idtf"].data
            V == args.mesh.vertex_number
            F == args.mesh.face_number
        IN  /\ CountValues(text, "FACE_COUNT") = {F}
            /\ CountValues(text, "MODEL_POSITION_COUNT") = {V}
            /\ CountValues(text, "MODEL_NORMAL_COUNT") = {V}
            /\ ListHas(text, "MESH_FACE_POSITION_LIST", F)
            /\ ListHas(text, "MESH_FACE_SHADING_LIST", F)
            /\ ListHas(text, "MESH_FACE_NORMAL_LIST", F)
            /\ ListHas(text, "MODEL_POSITION_LIST", V)
            /\ ListHas(text, "MODEL_NORMAL_LIST", V)
            /\ EntryCount(text) = 3 * F + 2 * V

\* A mesh with more vertices than faces, and several of each, was written on
\* the normal path.
C2_Witness ==
    /\ IdtfDone /\ ret.path = "normal"
    /\ args.mesh.face_number = 2 /\ args.mesh.vertex_number = 4
    /\ fs["idtf"].kind = "idtf"

\* What the path loop of find_idtf_converter tests of candidate i.
UsableAt(e, i) ==
    IF possible_paths[i].glob
    THEN \E j \in 1..Len(e.globbed[Str(possible_paths[i])]) : e.globbed[Str(possible_paths[i])][j].usable
    ELSE Str(possible_paths[i]) \in e.present
\* What it returns for candidate i.
ValueAt(e, i) ==
    IF possible_paths[i].glob
    THEN LET ms == e.globbed[Str(possible_paths[i])]
             j == CHOOSE k \in 1..Len(ms) : ms[k].usable /\ \A l \in 1..(k - 1) : ~ms[l].usable
         IN  ms[j].path
    ELSE Str(possible_paths[i])

FindReturned == script \in {"find_blender", "find_idtf_converter"} /\ pc = "returned"
\* The version command answered with exit status 0.
ZeroExit(entry) == entry.outcome \in {"ok", "other", "blender"}
\* The version command answered as the function asks.
PassedCheck(entry) == entry.outcome \in {"ok", "blender"}

\* C7 as stated: every value returned by find_blender or find_idtf_converter is
\* a candidate whose version command was run and exited with 0, no earlier
\* candidate passed, and None is returned exactly when no candidate passed.
C7_ReturnsFirstVersionChecked ==
    FindReturned =>
        /\ ret.value # None =>
              \E i \in 1..Len(log) :
                 /\ log[i].cmd = ret.value /\ ZeroExit(log[i])
                 /\ \A j \in 1..(i - 1) : ~PassedCheck(log[j])
        /\ ret.value = None <=>
              /\ \A i \in 1..Len(log) : ~PassedCheck(log[i])
              /\ script = "find_idtf_converter" => \A i \in 1..Len(possible_paths) : ~UsableAt(args, i)

\* C7 amended: find_blender returns the first candidate of blender_paths whose
\* version command exited with 0 and printed "Blender", and None when there is
\* none.  find_idtf_converter returns "u3d" when u3d -version exited with 0,
\* else "IDTFConverter" when IDTFConverter --version exited with 0; when it
\* returns otherwise, it returns the first listed path or glob match that
\* exists and is executable, for which it runs no version command, and None
\* exactly when there is none.
C7_ReturnsFirstAccepted ==
    FindReturned =>
        IF script = "find_blender"
        THEN /\ ret.value # None =>
                   \E i \in 1..Len(blender_paths) :
                      /\ ret.value = blender_paths[i]
                      /\ args.probe[blender_paths[i]] = "blender"
                      /\ \A j \in 1..(i - 1) : args.probe[blender_paths[j]] # "blender"
                      /\ Len(log) = i /\ log[i].cmd = ret.value
             /\ ret.value = None <=> \A i \in 1..Len(blender_paths) : args.probe[blender_paths[i]] # "blender"
        ELSE /\ args.u3d = "ok" => ret.value = "u3d"
             /\ args.u3d # "ok" /\ args.idtfconverter = "ok" => ret.value = "IDTFConverter"
             /\ args.u3d # "ok" /\ args.idtfconverter # "ok" =>
                   /\ ret.value # None =>
                         \E i \in 1..Len(possible_paths) :
                            /\ UsableAt(args, i) /\ ret.value = ValueAt(args, i)
                            /\ \A j \in 1..(i - 1) : ~UsableAt(args, j)
                            /\ \A k \in 1..Len(log) : log[k].cmd # ret.value
                   /\ ret.value = None <=> \A i \in 1..Len(possible_paths) : ~UsableAt(args, i)

\* find_idtf_converter returned a path it found on disk after both version
\* commands had failed, with an earlier candidate absent.
C7_Witness ==
    /\ script = "find_idtf_converter" /\ pc = "returned"
    /\ args.u3d = "fail" /\ args.idtfconverter = "missing"
    /\ ret.value = "~/.rbenv/shims/u3d"
    /\ "/usr/bin/IDTFConverter" \notin args.present

(***************************************************************************)
(* Subprocesses.  A launch meets one of RunOutcomes; `wrote` says whether  *)
(* the tool wrote its output file.  A log entry keeps the command, its     *)
(* kind ("probe": a version query, "convert": a launch of a U3D/IDTF       *)
(* converter, "export": a library export of a U3D file, "other"), its      *)
(* outcome and the locale variables the child process inherits.            *)
(***************************************************************************)
Launch(cmd, kind, outcome, env) == [cmd |-> cmd, kind |-> kind, outcome |-> outcome, environ |-> env]
ToolRuns == {r \in [outcome : RunOutcomes, wrote : BOOLEAN] : r.wrote => r.outcome # "missing"}
NoRun == [outcome |-> "missing", wrote |-> FALSE]
Last(s) == s[Len(s)]

(***************************************************************************)
(* The Ruby script of convert_stl_to_u3d.create_ruby_script, run as        *)
(* `ruby script stl u3d`.  e says what the script meets:                   *)
(*   gem_loads      require 'u3d' succeeds                                 *)
(*   method1        "done", "loaderror" (rescued LoadError) or "error"    *)
(*   gem_converter  an executable IDTFConverter lies in the gem directory  *)
(*   path_tools     stl2idtf and IDTFConverter are both found by `which`   *)
(*   wrote1..3      the converter of method 1, 2, 3 wrote the U3D file     *)
(* The result is the exit status, the file system and the methods tried.   *)
(* A field the script never comes to look at is held at its first value.   *)
(***************************************************************************)
RubyEnvs ==
    {e \in [gem_loads : BOOLEAN, method1 : {"done", "loaderror", "error"},
            gem_converter : BOOLEAN, path_tools : BOOLEAN,
            wrote1 : BOOLEAN, wrote2 : BOOLEAN, wrote3 : BOOLEAN] :
        /\ ~e.gem_loads => e.method1 = "done" /\ ~e.wrote1
        /\ e.method1 = "done" => ~e.gem_converter /\ ~e.path_tools
        /\ e.method1 # "done" => ~e.wrote1
        /\ ~e.gem_converter => ~e.wrote2
        /\ ~e.path_tools => ~e.wrote3}

RubyMethod3(f, e, tried) ==
    IF ~e.path_tools THEN [rc |-> 1, fs |-> f, tried |-> tried \o <<3>>]
    ELSE LET f3 == IF e.wrote3
                   THEN [f EXCEPT !["idtf"] = File("idtf_from_stl", <<>>),
                                  !["u3d"] = File("converted", ConvertedU3d)]
                   ELSE f
         IN  [rc |-> IF Exists(f3, "u3d") THEN 0 ELSE 1, fs |-> f3, tried |-> tried \o <<3>>]

RubyMethod2(f, e, tried) ==
    IF ~e.gem_converter THEN RubyMethod3(f, e, tried \o <<2>>)
    ELSE LET f1 == [f EXCEPT !["idtf"] = File("idtf_fallback", IdtfFallbackText)]
             f2 == IF e.wrote2
                   THEN [f1 EXCEPT !["u3d"] = File("substitute", SubstituteU3d)]
                   ELSE f1
         IN  IF Exists(f2, "u3d")
             THEN [rc |-> 0, fs |-> f2, tried |-> tried \o <<2>>]
             ELSE RubyMethod3(f2, e, tried \o <<2>>)

\* A LoadError of the outer require 'u3d' is no StandardError: the last
\* `rescue => e` does not catch it and ruby ends with status 1.
RubyScript(f, e) ==
    IF ~e.gem_loads THEN [rc |-> 1, fs |-> f, tried |-> <<>>]
    ELSE IF e.method1 = "done"
    THEN [rc |-> 0,
          fs |-> IF e.wrote1
                 THEN [f EXCEPT !["idtf"] = File("idtf_from_stl", <<>>),
                                !["u3d"] = File("converted", ConvertedU3d)]
                 ELSE f,
          tried |-> <<1>>]
    ELSE RubyMethod2(f, e, <<1>>)

\* What a run cannot write when the output path is not writable.
Dry(e) == [e EXCEPT !.wrote1 = FALSE, !.wrote2 = FALSE, !.wrote3 = FALSE]

(***************************************************************************)
(* convert_stl_to_u3d.convert_stl_to_u3d(stl_file, u3d_file).  ruby is     *)
(* what launching ruby meets ("missing": subprocess.run raises); the       *)
(* finally clause unlinks the script on every path.                        *)
(***************************************************************************)
\* A variant that does not look for the output file.
StlToU3dOutcomeNoCheck(rc, f) == IF rc # 0 THEN "False" ELSE "True"

StlToU3dOutcome(rc, f) ==
    IF rc # 0 THEN "False"
    ELSE IF ~Exists(f, "u3d") THEN "False"
    ELSE "True"

\* create_ruby_script: the script is written to a named temporary file
\* that is kept when it is closed.
create_ruby_script(f) == [f EXCEPT !["script"] = File("script", <<>>)]

\* os.unlink(script_path)
Unlinked(f) == [f EXCEPT !["script"] = Absent]

\* After subprocess.run returned r: the exit status and the output file.
StlToU3dChecked(r, env) ==
    [ret |-> StlToU3dOutcome(r.rc, r.fs), fs |-> Unlinked(r.fs),
     log |-> << Launch("ruby script", "convert", IF r.rc = 0 THEN "ok" ELSE "fail", env) >>]

stl_convert_stl_to_u3d(f, ruby, e, env) ==
    IF ruby = "missing"
    THEN [ret |-> "False", fs |-> Unlinked(create_ruby_script(f)),
          log |-> << Launch("ruby script", "convert", "missing", env) >>]
    ELSE StlToU3dChecked(RubyScript(create_ruby_script(f), e), env)

(***************************************************************************)
(* f-strings.  A replacement field {name} is evaluated in the scope of the *)
(* function; a name that is not defined there raises NameError.            *)
(***************************************************************************)
FStringRaises(fields, scope) == \E i \in 1..Len(fields) : fields[i] \notin scope

\* The replacement fields of the Ruby template of create_u3d_ruby_script:
\* '{stl_file}', '{u3d_file}', and Ruby's #{input_file}, #{output_file},
\* #{idtf_file}, #{output_file}, #{e.message}.
PipelineScriptFields ==
    << "stl_file", "u3d_file", "input_file", "output_file", "idtf_file", "output_file", "e" >>
PipelineScriptScope == {"stl_file", "u3d_file"}

\* The replacement fields of the script convert_idtf_to_u3d prepares:
\* "{idtf_file}", "{u3d_file}", \#{input_file}, \#{output_file}.
IdtfScriptFields == << "idtf_file", "u3d_file", "input_file", "output_file" >>
IdtfScriptScope == {"self", "idtf_file", "u3d_file", "version_result", "version_output",
                    "temp_script", "f"}

\* create_u3d_ruby_script: the template is evaluated before the temporary
\* file is created.
create_u3d_ruby_script(f) ==
    IF FStringRaises(PipelineScriptFields, PipelineScriptScope)
    THEN [ret |-> "raise", fs |-> f]
    ELSE [ret |-> "script", fs |-> [f EXCEPT !["script"] = File("script", <<>>)]]

(***************************************************************************)
(* convert_obj_u3d_pipeline.py: the conversion functions.                  *)
(***************************************************************************)
Wrote(f, run, writable, p, file) ==
    IF run.wrote /\ writable THEN [f EXCEPT ![p] = file] ELSE f

\* convert_obj_to_stl: a launch that raises is not caught.
convert_obj_to_stl(f, run, writable, env) ==
    LET f1 == Wrote(f, run, writable, "stl", File("mesh_stl", <<>>))
    IN  [ret |-> IF run.outcome = "missing" THEN "raise"
                 ELSE IF run.outcome = "fail" THEN "False"
                 ELSE IF ~Exists(f1, "stl") THEN "False"
                 ELSE "True",
         fs |-> f1,
         log |-> << Launch("blender", "other", run.outcome, env) >>]

\* A run that does not come about is held at NoRun.
PipelineEnvs ==
    {e \in [ruby : ToolRuns, alt1 : ToolRuns, alt2 : ToolRuns, alt3 : ToolRuns] :
        /\ e.ruby.outcome # "fail" => e.alt1 = NoRun
        /\ e.alt1.outcome # "fail" => e.alt2 = NoRun
        /\ e.alt2.outcome # "fail" => e.alt3 = NoRun}

\* The alternatives after the Ruby script returned non-zero; an exception
\* among them is caught and gives False.
RECURSIVE PipelineAlternatives(_, _, _, _, _, _)
PipelineAlternatives(f, cmds, runs, writable, env, sofar) ==
    LET run == runs[1]
        f1 == Wrote(f, run, writable, "u3d", File("converted", ConvertedU3d))
        l1 == Append(sofar, Launch(cmds[1], "convert", run.outcome, env))
    IN  IF run.outcome = "missing" THEN [ret |-> "False", fs |-> f1, log |-> l1]
        ELSE IF run.outcome = "ok"
        THEN [ret |-> IF Exists(f1, "u3d") THEN "True" ELSE "False", fs |-> f1, log |-> l1]
        ELSE IF Len(cmds) = 1 THEN [ret |-> "False", fs |-> f1, log |-> l1]
        ELSE PipelineAlternatives(f1, Tail(cmds), Tail(runs), writable, env, l1)

pipeline_convert_stl_to_u3d(f, e, writable, env) ==
    LET cs == create_u3d_ruby_script(f)
    IN  IF cs.ret = "raise" THEN [ret |-> "raise", fs |-> f, log |-> <<>>]
        ELSE LET l0 == << Launch("ruby script", "convert", e.ruby.outcome, env) >>
                 f1 == Wrote(cs.fs, e.ruby, writable, "u3d", File("converted", ConvertedU3d))
                 f2 == [f1 EXCEPT !["script"] = Absent]
             IN  IF e.ruby.outcome = "missing" THEN [ret |-> "raise", fs |-> f1, log |-> l0]
                 ELSE IF e.ruby.outcome = "ok"
                 THEN [ret |-> IF Exists(f2, "u3d") THEN "True" ELSE "False", fs |-> f2, log |-> l0]
                 ELSE PipelineAlternatives(f2,
                          << "u3d convert --input --output", "u3d --input --output", "stl2u3d" >>,
                          << e.alt1, e.alt2, e.alt3 >>, writable, env, l0)

(***************************************************************************)
(* convert_obj_to_u3d.py: ObjToU3dConverter.                               *)
(***************************************************************************)
\* What convert_obj_to_idtf meets: load_ok (the OBJ loads), save_ok (the
\* processed OBJ is saved), and the environment of create_idtf_from_obj.
ObjToIdtfEnvs == [load_ok : BOOLEAN, save_ok : BOOLEAN, loads : BOOLEAN, opens : BOOLEAN]
SampleMesh == Mesh(3, 1)

convert_obj_to_idtf(f, e) ==
    IF ~e.load_ok \/ ~e.save_ok THEN [ret |-> None, fs |-> f]
    ELSE LET f1 == [f EXCEPT !["temp_obj"] = File("mesh_processed", <<>>)]
             r == create_idtf_from_obj(f1, [mesh |-> SampleMesh, loads |-> e.loads, opens |-> e.opens])
         IN  [ret |-> IF Exists(r.fs, "idtf") THEN "idtf" ELSE None, fs |-> r.fs]

\* The U3D file a converter compiles from an IDTF file.
U3dFrom(idtf) ==
    IF idtf.kind = "idtf" THEN File("converted", ConvertedU3d)
    ELSE File("substitute", SubstituteU3d)

\* What convert_idtf_to_u3d meets: version (["u3d", "-version"]), run (the
\* conversion command), gem ("missing": `gem` cannot be launched, "none": no
\* IDTFConverter in the gem, "found") and run2 (that IDTFConverter).
\* A run that does not come about is held at NoRun.
IdtfToU3dEnvs ==
    {e \in [version : RunOutcomes, run : ToolRuns,
            gem : {"missing", "none", "found"}, run2 : ToolRuns] :
        /\ e.run.outcome # "fail" => e.gem = "missing"
        /\ e.gem # "found" => e.run2 = NoRun}

\* The end of convert_idtf_to_u3d: "Check if the U3D file was created".
IdtfToU3dCheck(f) == IF Exists(f, "u3d") THEN "u3d" ELSE None

\* A variant without the check of idtf_converter_path: the positional
\* command is launched with whatever the path holds.
convert_idtf_to_u3d_unguarded(f, path, e, writable, env) ==
    [ret |-> IF e.run.outcome = "ok"
             THEN IdtfToU3dCheck(Wrote(f, e.run, writable, "u3d", U3dFrom(f["idtf"])))
             ELSE None,
     fs |-> Wrote(f, e.run, writable, "u3d", U3dFrom(f["idtf"])),
     log |-> << Launch(path, "convert", e.run.outcome, env) >>]

convert_idtf_to_u3d(f, path, e, writable, env) ==
    IF path = None THEN [ret |-> None, fs |-> f, log |-> <<>>]
    ELSE
    LET gem == path = "u3d"
        \* the script is prepared only when the version query could be launched
        prepared == gem /\ e.version # "missing"
        f0 == IF prepared THEN [f EXCEPT !["script"] = File("script", <<>>)] ELSE f
        cmd == IF ~gem THEN path
               ELSE IF prepared /\ ~FStringRaises(IdtfScriptFields, IdtfScriptScope)
               THEN "ruby script"
               ELSE "u3d convert"
        l0 == IF gem THEN << Launch("u3d -version", "probe", e.version, env) >> ELSE <<>>
        l1 == Append(l0, Launch(cmd, "convert", e.run.outcome, env))
        f1 == Wrote(f0, e.run, writable, "u3d", U3dFrom(f["idtf"]))
    IN  IF e.run.outcome = "missing" THEN [ret |-> None, fs |-> f1, log |-> l1]
        ELSE IF e.run.outcome = "ok" THEN [ret |-> IdtfToU3dCheck(f1), fs |-> f1, log |-> l1]
        ELSE IF ~gem THEN [ret |-> None, fs |-> f1, log |-> l1]
        ELSE LET l2 == Append(l1, Launch("gem environment gempath", "other",
                                         IF e.gem = "missing" THEN "missing" ELSE "ok", env))
             IN  IF e.gem # "found" THEN [ret |-> None, fs |-> f1, log |-> l2]
                 ELSE LET l3 == Append(l2, Launch("gem IDTFConverter", "convert", e.run2.outcome, env))
                          f2 == Wrote(f1, e.run2, writable, "u3d", U3dFrom(f["idtf"]))
                      IN  IF e.run2.outcome # "ok" THEN [ret |-> None, fs |-> f2, log |-> l3]
                          ELSE [ret |-> IdtfToU3dCheck(f2), fs |-> f2, log |-> l3]

(***************************************************************************)
(* example_pdf.py.  A PDF file is a sequence of pages; a page holds its    *)
(* annotations.  An annotation maps its keys to values, as PdfDict does.   *)
(***************************************************************************)
BlankPage == [Annots |-> <<>>]
view_box == <<50, 100, 512, 642>>

\* A variant that stores the data deflated, as the Filter entry announces:
\* a zlib header before the data and a checksum after it.
U3dStreamDeflated(u3d_data) ==
    [Type |-> "3D", Subtype |-> "U3D", Filter |-> "FlateDecode",
     stream |-> <<120, 156>> \o u3d_data \o <<0, 0, 0, 1>>]

\* stream = PdfDict(); stream.stream = u3d_data; Type, Subtype, Filter
U3dStream(u3d_data) ==
    [Type |-> "3D", Subtype |-> "U3D", Filter |-> "FlateDecode", stream |-> u3d_data]

View3D == [XN |-> "Default", TYPE |-> "3D", MS |-> "M", CO |-> 8]
Activation == [A |-> "PO", AIS |-> "L", D |-> "I"]

Annotation3D(stream, rect) ==
    ("Type" :> "Annot") @@ ("Subtype" :> "3D") @@ ("Contents" :> "3D Model")
    @@ ("Rect" :> rect) @@ ("3DD" :> stream) @@ ("3DV" :> View3D) @@ ("3DA" :> Activation)

\* What create_3d_pdf meets: the answer at the prompt, whether the
\* temporary directory can be written, whether the output PDF can.
PdfEnvs == [response : {"y", "n"}, tmp_ok : BOOLEAN, write_ok : BOOLEAN]

\* embed_u3d: every exception gives False.
embed_u3d(f, u3d_file, temp_pdf, output_pdf, rect, e) ==
    IF ~Exists(f, u3d_file) \/ ~Exists(f, temp_pdf) THEN [ret |-> "False", fs |-> f]
    ELSE LET u3d_data == f[u3d_file].data
             annotation == Annotation3D(U3dStream(u3d_data), rect)
             page == f[temp_pdf].data[1]
             page2 == [page EXCEPT !.Annots = Append(page.Annots, annotation)]
         IN  IF ~e.write_ok THEN [ret |-> "False", fs |-> f]
             ELSE [ret |-> "True", fs |-> [f EXCEPT ![output_pdf] = File("pdf", << page2 >>)]]

\* create_3d_pdf up to the call of embed_u3d: the dummy file or the
\* validation and the prompt, then the base PDF.
Create3dPdfPrepare(f, u3d_file, use_dummy, e) ==
    LET d == create_dummy_u3d(f, "dummy_u3d", e.tmp_ok)
        f1 == IF use_dummy THEN d.fs ELSE f
        passed == IF use_dummy /\ d.ret = "True" THEN "dummy_u3d" ELSE u3d_file
    IN  IF ~use_dummy /\ ~is_valid_u3d(f, u3d_file) /\ e.response # "y"
        THEN [go |-> "None", fs |-> f, u3d_file |-> u3d_file]
        ELSE IF ~e.tmp_ok THEN [go |-> "raise", fs |-> f1, u3d_file |-> passed]
        ELSE [go |-> "embed", fs |-> [f1 EXCEPT !["temp_pdf"] = File("pdf", << BlankPage >>)],
              u3d_file |-> passed]

\* The end of the `with tempfile.TemporaryDirectory()` block.
Create3dPdfCleanup(f) == [f EXCEPT !["temp_pdf"] = Absent, !["dummy_u3d"] = Absent]

\* create_3d_pdf: the result of embed_u3d is not looked at.
create_3d_pdf(f, u3d_file, output_pdf, use_dummy, e) ==
    LET p == Create3dPdfPrepare(f, u3d_file, use_dummy, e)
    IN  IF p.go # "embed" THEN [ret |-> p.go, fs |-> Create3dPdfCleanup(p.fs)]
        ELSE [ret |-> "output_pdf",
              fs |-> Create3dPdfCleanup(
                         embed_u3d(p.fs, p.u3d_file, "temp_pdf", output_pdf, view_box, e).fs)]

(***************************************************************************)
(* The scripts.  One run of one script: Init chooses the script, its       *)
(* command line, the files that exist and the locale variables.            *)
(***************************************************************************)
OtherLocale == "de_DE.UTF-8"
Environs == [LC_ALL : {Unset, OtherLocale}, LANG : {Unset, OtherLocale}]
LocaleSet(env) == env.LC_ALL # Unset /\ env.LANG # Unset

StlArgs == [input_exists : BOOLEAN, placeholder : BOOLEAN, stale : BOOLEAN, writable : BOOLEAN]

\* same_stem: the input is X.stl and the output X.u3d in the same directory.
PmlArgs == [input_exists : BOOLEAN, same_stem : BOOLEAN, stale : BOOLEAN, writable : BOOLEAN]

ObjArgs == [input_exists : BOOLEAN, idtf_converter : {None, "u3d", "/opt/IDTFConverter"},
            keep_idtf : BOOLEAN, stale : BOOLEAN, writable : BOOLEAN]

PipeArgs == {a \in [info : BOOLEAN, obj_file : BOOLEAN, input_exists : BOOLEAN,
                    blender : {None, "/opt/blender"}, stale : BOOLEAN, writable : BOOLEAN] :
                a.input_exists => a.obj_file}

\* example_pdf.py: argv "none" is the default example of the __main__ block;
\* u3d_file says what lies at the U3D path.
PdfArgs == {a \in [argv : {"none", "path"}, dummy : BOOLEAN,
                   u3d_file : {"absent", "converted", "placeholder", "short", "nomagic"},
                   input_exists : {FALSE}, stale : {FALSE}, stale_pdf : BOOLEAN] :
               a.argv = "none" => ~a.dummy}

WfArgs == [input_exists : BOOLEAN, stale : BOOLEAN, stale_pdf : BOOLEAN]

\* setup_pymeshlab_u3d.py takes no arguments; system is platform.system().
SetupArgs == [system : {"linux", "darwin", "windows"}, input_exists : {FALSE}, stale : {FALSE}]

ArgsOf(s) ==
    CASE s = "convert_stl_to_u3d.py" -> StlArgs
      [] s = "pymeshlab_u3d_example.py" -> PmlArgs
      [] s = "convert_obj_to_u3d.py" -> ObjArgs
      [] s = "convert_obj_u3d_pipeline.py" -> PipeArgs
      [] s = "example_pdf.py" -> PdfArgs
      [] s = "example_workflow.py" -> WfArgs
      [] s = "setup_pymeshlab_u3d.py" -> SetupArgs

Scripts == {"convert_stl_to_u3d.py", "pymeshlab_u3d_example.py", "convert_obj_to_u3d.py",
            "convert_obj_u3d_pipeline.py", "example_pdf.py", "example_workflow.py",
            "setup_pymeshlab_u3d.py"}

U3dFileOf(kind) ==
    CASE kind = "absent" -> Absent
      [] kind = "converted" -> File("converted", ConvertedU3d)
      [] kind = "placeholder" -> File("placeholder", FromHex(PlaceholderHex))
      [] kind = "short" -> File("short", U3dMagic)
      [] kind = "nomagic" -> File("nomagic", [i \in 1..128 |-> i])

InitialFs(a) ==
    [EmptyFs EXCEPT !["input"] = IF a.input_exists THEN File("mesh", <<>>) ELSE Absent,
                    !["u3d"] = IF "u3d_file" \in DOMAIN a THEN U3dFileOf(a.u3d_file)
                               ELSE IF a.stale THEN File("stale", ConvertedU3d) ELSE Absent,
                    !["pdf"] = IF "stale_pdf" \in DOMAIN a /\ a.stale_pdf
                               THEN File("stale", << BlankPage >>) ELSE Absent]

Init ==
    /\ script \in Scripts
    /\ pc = "main"
    /\ args \in ArgsOf(script)
    /\ fs = InitialFs(args)
    /\ environ \in Environs
    /\ exitStatus = "running"
    /\ log = <<>>
    /\ ret = [fn |-> None, value |-> None, aux |-> None]

Exit(status) == pc' = "exited" /\ exitStatus' = status

\* A function fn returned r: its effect on the files, the launches it made
\* and its value.
Returned(fn, r) ==
    /\ fs' = r.fs
    /\ log' = log \o r.log
    /\ ret' = [ret EXCEPT !.fn = fn, !.value = r.ret]

(***************************************************************************)
(* convert_stl_to_u3d.py                                                   *)
(***************************************************************************)
\* main up to the conversion: the input check and --placeholder.
StlMainStart ==
    /\ script = "convert_stl_to_u3d.py" /\ pc = "main"
    /\ IF ~Exists(fs, "input")
       THEN Exit("1") /\ UNCHANGED <<fs, ret>>
       ELSE IF args.placeholder
       THEN LET r == create_placeholder_u3d(fs, "u3d", args.writable)
            IN  /\ fs' = r.fs
                /\ ret' = [ret EXCEPT !.fn = "create_placeholder_u3d", !.value = r.ret]
                /\ Exit(IF r.ret = "True" THEN "0" ELSE "1")
       ELSE pc' = "convert" /\ UNCHANGED <<fs, ret, exitStatus>>
    /\ UNCHANGED <<script, args, environ, log>>

\* The call of convert_stl_to_u3d.
StlMainConvert ==
    /\ script = "convert_stl_to_u3d.py" /\ pc = "convert"
    /\ \E ruby \in {"installed", "missing"}, e \in RubyEnvs :
          Returned("convert_stl_to_u3d",
                   stl_convert_stl_to_u3d(fs, ruby, IF args.writable THEN e ELSE Dry(e), environ))
    /\ pc' = "converted"
    /\ UNCHANGED <<script, args, environ, exitStatus>>

\* A variant of the end of main that reports the placeholder as a success.
StlMainEndForgiving ==
    /\ script = "convert_stl_to_u3d.py" /\ pc = "converted"
    /\ IF ret.value = "True"
       THEN Exit("0") /\ UNCHANGED <<fs, ret>>
       ELSE LET r == create_placeholder_u3d(fs, "u3d", args.writable)
            IN  /\ fs' = r.fs
                /\ ret' = [ret EXCEPT !.fn = "create_placeholder_u3d", !.value = r.ret]
                /\ Exit("0")
    /\ UNCHANGED <<script, args, environ, log>>

\* The end of main: exit 0 after a conversion, the placeholder and exit 1
\* after a failed one.
StlMainEnd ==
    /\ script = "convert_stl_to_u3d.py" /\ pc = "converted"
    /\ IF ret.value = "True"
       THEN Exit("0") /\ UNCHANGED <<fs, ret>>
       ELSE LET r == create_placeholder_u3d(fs, "u3d", args.writable)
            IN  /\ fs' = r.fs
                /\ ret' = [ret EXCEPT !.fn = "create_placeholder_u3d", !.value = r.ret]
                /\ Exit("1")
    /\ UNCHANGED <<script, args, environ, log>>

(***************************************************************************)
(* pymeshlab_u3d_example.py                                                *)
(***************************************************************************)
LocaleValue == "en_US.UTF-8"

\* ensure_locale_setup: when one of the two is missing, both are assigned.
ensure_locale_setup(env) ==
    IF env.LC_ALL = Unset \/ env.LANG = Unset
    THEN [LC_ALL |-> LocaleValue, LANG |-> LocaleValue]
    ELSE env

\* What convert_to_u3d meets after ensure_locale_setup:
\*   load_ok   ms.load_new_mesh succeeds
\*   direct    the export to output_path: "raise", "nofile", "empty", "written"
\*   stl_ok    saving the intermediate STL succeeds
\*   import_ok convert_stl_to_u3d.py can be imported
\*   ruby, rb  what the fallback converter meets
PmlEnvs == [load_ok : BOOLEAN, direct : {"raise", "nofile", "empty", "written"},
            stl_ok : BOOLEAN, import_ok : BOOLEAN,
            ruby : {"installed", "missing"}, rb : RubyEnvs]

\* stl_path = output_path.with_suffix('.stl'): the input itself when the
\* input is the STL file with the stem of the output.
StlPathOf(a) == IF a.same_stem THEN "input" ELSE "stl"

\* The STL fallback of convert_to_u3d (from "Save as STL first").
\* "Create a simple placeholder U3D file": ph is what create_placeholder_u3d
\* gave; the intermediate STL is removed after a True.
PmlPlaceholder(ph, stl_path, l) ==
    IF ph.ret = "True"
    THEN [ret |-> "True", fs |-> [ph.fs EXCEPT ![stl_path] = Absent], log |-> l]
    ELSE [ret |-> "False", fs |-> ph.fs, log |-> l]

\* A variant that gives up without the placeholder.
PmlConvertedNoPlaceholder(c, stl_path, writable, sofar) ==
    IF c.ret = "True"
    THEN [ret |-> "True", fs |-> [c.fs EXCEPT ![stl_path] = Absent], log |-> sofar \o c.log]
    ELSE [ret |-> "False", fs |-> c.fs, log |-> sofar \o c.log]

\* c is what the fallback converter gave.
PmlConverted(c, stl_path, writable, sofar) ==
    IF c.ret = "True"
    THEN [ret |-> "True", fs |-> [c.fs EXCEPT ![stl_path] = Absent], log |-> sofar \o c.log]
    ELSE PmlPlaceholder(create_placeholder_u3d(c.fs, "u3d", writable), stl_path, sofar \o c.log)

PmlFallback(f, stl_path, writable, e, env, sofar) ==
    IF ~e.stl_ok THEN [ret |-> "False", fs |-> f, log |-> sofar]
    ELSE IF ~e.import_ok
    THEN [ret |-> "False", fs |-> [f EXCEPT ![stl_path] = File("mesh_stl", <<>>)], log |-> sofar]
    ELSE PmlConverted(stl_convert_stl_to_u3d([f EXCEPT ![stl_path] = File("mesh_stl", <<>>)], e.ruby,
                                             IF writable THEN e.rb ELSE Dry(e.rb), env),
                      stl_path, writable, sofar)

\* convert_to_u3d from the input check on.
PmlConvertRest(f, stl_path, writable, has_u3d_support, e, env) ==
    IF ~Exists(f, "input") THEN [ret |-> "False", fs |-> f, log |-> <<>>]
    ELSE IF ~e.load_ok THEN [ret |-> "False", fs |-> f, log |-> <<>>]
    ELSE IF has_u3d_support
    THEN LET wrote == IF writable THEN e.direct ELSE "raise"
             f1 == IF wrote = "written" THEN [f EXCEPT !["u3d"] = File("converted", ConvertedU3d)]
                   ELSE IF wrote = "empty" THEN [f EXCEPT !["u3d"] = File("empty", <<>>)]
                   ELSE f
             l1 == << Launch("save_current_mesh u3d", "export",
                             IF wrote = "raise" THEN "fail" ELSE "ok", env) >>
         IN  IF wrote # "raise" /\ Exists(f1, "u3d") /\ GetSize(f1, "u3d") > 0
             THEN [ret |-> "True", fs |-> f1, log |-> l1]
             ELSE PmlFallback(f1, stl_path, writable, e, env, l1)
    ELSE PmlFallback(f, stl_path, writable, e, env, <<>>)

PmlImport ==
    /\ script = "pymeshlab_u3d_example.py" /\ pc = "main"
    /\ \E installed \in BOOLEAN :
          IF installed THEN pc' = "check_u3d_support" /\ UNCHANGED exitStatus
          ELSE Exit("1")
    /\ UNCHANGED <<script, args, fs, environ, log, ret>>

\* check_u3d_support: exports a cube to test.u3d in a temporary directory.
PmlCheckU3dSupport ==
    /\ script = "pymeshlab_u3d_example.py" /\ pc = "check_u3d_support"
    /\ \E supported \in BOOLEAN :
          /\ log' = Append(log, Launch("save_current_mesh test.u3d", "export",
                                       IF supported THEN "ok" ELSE "fail", environ))
          /\ ret' = [ret EXCEPT !.fn = "check_u3d_support", !.aux = supported]
    /\ pc' = "ensure_locale_setup"
    /\ UNCHANGED <<script, args, fs, environ, exitStatus>>

PmlEnsureLocaleSetup ==
    /\ script = "pymeshlab_u3d_example.py" /\ pc = "ensure_locale_setup"
    /\ environ' = ensure_locale_setup(environ)
    /\ pc' = "convert"
    /\ UNCHANGED <<script, args, fs, exitStatus, log, ret>>

PmlConvert ==
    /\ script = "pymeshlab_u3d_example.py" /\ pc = "convert"
    /\ \E e \in PmlEnvs :
          Returned("convert_to_u3d", PmlConvertRest(fs, StlPathOf(args), args.writable, ret.aux, e, environ))
    /\ pc' = "converted"
    /\ UNCHANGED <<script, args, environ, exitStatus>>

PmlMainEnd ==
    /\ script = "pymeshlab_u3d_example.py" /\ pc = "converted"
    /\ Exit(IF ret.value = "True" THEN "0" ELSE "1")
    /\ UNCHANGED <<script, args, fs, environ, log, ret>>

(***************************************************************************)
(* convert_obj_to_u3d.py                                                   *)
(***************************************************************************)
ProbeLog(probes, env) ==
    [i \in 1..Len(probes) |-> Launch(probes[i].cmd, "probe", probes[i].outcome, env)]

\* The environments find_idtf_converter meets in a run of the script.
NoGlob == [q \in GlobPatterns |-> <<>>]
MainFindEnvs ==
    [u3d : RunOutcomes, idtfconverter : RunOutcomes, platform : {"linux", "win32"},
     present : {{}, {"/usr/bin/IDTFConverter"}, {"~/.rbenv/shims/u3d"}}, globbed : {NoGlob}]

ObjMainStart ==
    /\ script = "convert_obj_to_u3d.py" /\ pc = "main"
    /\ IF ~Exists(fs, "input") THEN Exit("1")
       ELSE pc' = "construct" /\ UNCHANGED exitStatus
    /\ UNCHANGED <<script, args, fs, environ, log, ret>>

\* ObjToU3dConverter(args.idtf_converter)
ObjConstruct ==
    /\ script = "convert_obj_to_u3d.py" /\ pc = "construct"
    /\ fs' = [fs EXCEPT !["temp_dir"] = File("dir", <<>>)]
    /\ \E dirs_ok \in BOOLEAN :
          IF ~dirs_ok
          THEN Exit("1") /\ UNCHANGED <<log, ret>>
          ELSE /\ UNCHANGED exitStatus
               /\ IF args.idtf_converter # None
                  THEN /\ ret' = [ret EXCEPT !.fn = "__init__", !.aux = args.idtf_converter]
                       /\ pc' = "step1"
                       /\ UNCHANGED log
                  ELSE \E e \in MainFindEnvs :
                          LET r == find_idtf_converter(e)
                          IN  /\ log' = log \o ProbeLog(r.probes, environ)
                              /\ ret' = [ret EXCEPT !.fn = "find_idtf_converter", !.aux = r.value]
                              /\ pc' = IF r.value = Hang THEN "hang" ELSE "step1"
    /\ UNCHANGED <<script, args, environ>>

\* A variant of step 1 that goes on to step 2 whatever convert_obj_to_idtf
\* returned.
ObjStep1GoesOn ==
    /\ script = "convert_obj_to_u3d.py" /\ pc = "step1"
    /\ \E e \in ObjToIdtfEnvs :
          LET r == convert_obj_to_idtf(fs, e)
          IN  /\ fs' = r.fs
              /\ ret' = [ret EXCEPT !.fn = "convert_obj_to_idtf", !.value = r.ret]
              /\ pc' = "step2"
    /\ UNCHANGED <<script, args, environ, exitStatus, log>>

\* convert_obj_to_u3d, step 1
ObjStep1 ==
    /\ script = "convert_obj_to_u3d.py" /\ pc = "step1"
    /\ \E e \in ObjToIdtfEnvs :
          LET r == convert_obj_to_idtf(fs, e)
          IN  /\ fs' = r.fs
              /\ ret' = [ret EXCEPT !.fn = "convert_obj_to_idtf", !.value = r.ret]
              /\ pc' = IF r.ret = None THEN "cleanup" ELSE "step2"
    /\ UNCHANGED <<script, args, environ, exitStatus, log>>

\* convert_obj_to_u3d, step 2
ObjStep2 ==
    /\ script = "convert_obj_to_u3d.py" /\ pc = "step2"
    /\ \E e \in IdtfToU3dEnvs :
          Returned("convert_idtf_to_u3d", convert_idtf_to_u3d(fs, ret.aux, e, args.writable, environ))
    /\ pc' = "cleanup"
    /\ UNCHANGED <<script, args, environ, exitStatus>>

\* cleanup unless --keep-idtf, and the exit status.
ObjMainEnd ==
    /\ script = "convert_obj_to_u3d.py" /\ pc = "cleanup"
    /\ fs' = IF args.keep_idtf THEN fs
             ELSE [fs EXCEPT !["temp_dir"] = Absent, !["temp_obj"] = Absent,
                             !["script"] = Absent]
    /\ Exit(IF ret.fn = "convert_idtf_to_u3d" /\ ret.value # None /\ Exists(fs, "u3d")
            THEN "0" ELSE "1")
    /\ UNCHANGED <<script, args, environ, log, ret>>

(***************************************************************************)
(* convert_obj_u3d_pipeline.py                                             *)
(***************************************************************************)
\* main up to "Find Blender": --info, the missing argument, the input check.
PipeMainStart ==
    /\ script = "convert_obj_u3d_pipeline.py" /\ pc = "main"
    /\ \E help \in RunOutcomes :
          log' = IF args.info THEN Append(log, Launch("u3d --help", "other", help, environ))
                 ELSE log
    /\ IF args.info /\ ~args.obj_file THEN Exit("0")
       ELSE IF ~args.obj_file THEN Exit("1")
       ELSE IF ~Exists(fs, "input") THEN Exit("1")
       ELSE pc' = "find_blender" /\ UNCHANGED exitStatus
    /\ UNCHANGED <<script, args, fs, environ, ret>>

\* The environments find_blender meets in a run of the script: every
\* candidate answers alike.
MainBlenderEnvs ==
    {e \in BlenderEnvs : \A i \in 1..Len(blender_paths) : e.probe[blender_paths[i]] = e.probe[blender_paths[1]]}

PipeFindBlender ==
    /\ script = "convert_obj_u3d_pipeline.py" /\ pc = "find_blender"
    /\ IF args.blender # None
       THEN /\ ret' = [ret EXCEPT !.fn = "main", !.aux = args.blender]
            /\ pc' = "step1"
            /\ UNCHANGED <<log, exitStatus>>
       ELSE \E e \in MainBlenderEnvs :
               LET r == find_blender(e.probe)
               IN  /\ log' = log \o ProbeLog(r.probes, environ)
                   /\ ret' = [ret EXCEPT !.fn = "find_blender", !.aux = r.value]
                   /\ IF r.value = None THEN Exit("1")
                      ELSE pc' = "step1" /\ UNCHANGED exitStatus
    /\ UNCHANGED <<script, args, fs, environ>>

\* Step 1: Convert OBJ to STL
PipeObjToStl ==
    /\ script = "convert_obj_u3d_pipeline.py" /\ pc = "step1"
    /\ \E run \in ToolRuns :
          /\ Returned("convert_obj_to_stl", convert_obj_to_stl(fs, run, args.writable, environ))
          /\ IF ret'.value = "True" THEN pc' = "step2" /\ UNCHANGED exitStatus
             ELSE Exit("1")
    /\ UNCHANGED <<script, args, environ>>

\* Step 2: Convert STL to U3D, and the end of main.
PipeStlToU3d ==
    /\ script = "convert_obj_u3d_pipeline.py" /\ pc = "step2"
    /\ \E e \in PipelineEnvs :
          /\ Returned("convert_stl_to_u3d", pipeline_convert_stl_to_u3d(fs, e, args.writable, environ))
          /\ Exit(IF ret'.value = "True" THEN "0" ELSE "1")
    /\ UNCHANGED <<script, args, environ>>

(***************************************************************************)
(* example_pdf.py                                                          *)
(***************************************************************************)
\* The __main__ block and main up to the call of create_3d_pdf.
PdfMainStart ==
    /\ script = "example_pdf.py" /\ pc = "main"
    /\ IF args.argv = "none"
       THEN \E response \in {"y", "n"} :
               IF ~Exists(fs, "u3d") THEN Exit("1")
               ELSE IF ~is_valid_u3d(fs, "u3d") /\ response # "y" THEN Exit("1")
               ELSE pc' = "create_3d_pdf" /\ UNCHANGED exitStatus
       ELSE IF ~args.dummy /\ ~Exists(fs, "u3d") THEN Exit("1")
       ELSE pc' = "create_3d_pdf" /\ UNCHANGED exitStatus
    /\ UNCHANGED <<script, args, fs, environ, log, ret>>

\* create_3d_pdf up to the call of embed_u3d.
PdfPrepare ==
    /\ script = "example_pdf.py" /\ pc = "create_3d_pdf"
    /\ \E e \in PdfEnvs :
          LET r == Create3dPdfPrepare(fs, "u3d", args.dummy, e)
          IN  /\ fs' = r.fs
              /\ ret' = [ret EXCEPT !.fn = "create_3d_pdf", !.value = r.go, !.aux = r.u3d_file]
              /\ IF r.go = "None" THEN Exit("0")
                 ELSE IF r.go = "raise" THEN Exit("1")
                 ELSE pc' = "embed_u3d" /\ UNCHANGED exitStatus
    /\ UNCHANGED <<script, args, environ, log>>

PdfEmbed ==
    /\ script = "example_pdf.py" /\ pc = "embed_u3d"
    /\ \E e \in PdfEnvs :
          LET r == embed_u3d(fs, ret.aux, "temp_pdf", "pdf", view_box, e)
          IN  /\ fs' = r.fs
              /\ ret' = [ret EXCEPT !.fn = "embed_u3d", !.value = r.ret]
    /\ pc' = "embedded"
    /\ UNCHANGED <<script, args, environ, exitStatus, log>>

\* The temporary directory is removed; create_3d_pdf returns and the
\* script ends.
PdfMainEnd ==
    /\ script = "example_pdf.py" /\ pc = "embedded"
    /\ fs' = Create3dPdfCleanup(fs)
    /\ Exit("0")
    /\ UNCHANGED <<script, args, environ, log, ret>>

(***************************************************************************)
(* example_workflow.py                                                     *)
(***************************************************************************)
\* What the export of a mesh to a U3D path leaves behind.
Exported(f, direct) ==
    IF direct = "written" THEN [f EXCEPT !["u3d"] = File("converted", ConvertedU3d)]
    ELSE IF direct = "empty" THEN [f EXCEPT !["u3d"] = File("empty", <<>>)]
    ELSE f

ExportOutcomes == {"raise", "nofile", "empty", "written"}
WfEnvs == [load_ok : BOOLEAN, direct : ExportOutcomes]

\* obj_to_u3d: no exception is caught.
obj_to_u3d(f, e, env) ==
    IF ~Exists(f, "input") \/ ~e.load_ok THEN [ret |-> "raise", fs |-> f, log |-> <<>>]
    ELSE LET f1 == Exported(f, e.direct)
             l1 == << Launch("save_current_mesh u3d", "export",
                             IF e.direct = "raise" THEN "fail" ELSE "ok", env) >>
         IN  IF e.direct = "raise" THEN [ret |-> "raise", fs |-> f1, log |-> l1]
             ELSE IF Exists(f1, "u3d") /\ GetSize(f1, "u3d") > 0
             THEN [ret |-> "True", fs |-> f1, log |-> l1]
             ELSE [ret |-> "False", fs |-> f1, log |-> l1]

\* u3d_to_pdf: without example_pdf a basic PDF is written and the result is
\* False.
u3d_to_pdf(f, import_ok, e) ==
    IF ~import_ok
    THEN [ret |-> "False",
          fs |-> IF e.write_ok THEN [f EXCEPT !["pdf"] = File("basic_pdf", << BlankPage >>)] ELSE f]
    ELSE LET r == create_3d_pdf(f, "u3d", "pdf", FALSE, e)
         IN  IF r.ret = "raise" THEN [ret |-> "raise", fs |-> r.fs]
             ELSE [ret |-> IF Exists(r.fs, "pdf") /\ GetSize(r.fs, "pdf") > 0
                           THEN "True" ELSE "False",
                   fs |-> r.fs]

WfCheckPymeshlab ==
    /\ script = "example_workflow.py" /\ pc = "main"
    /\ \E installed \in BOOLEAN :
          IF installed THEN pc' = "obj_to_u3d" /\ UNCHANGED exitStatus
          ELSE Exit("1")
    /\ UNCHANGED <<script, args, fs, environ, log, ret>>

\* Step 1: Convert OBJ to U3D
WfObjToU3d ==
    /\ script = "example_workflow.py" /\ pc = "obj_to_u3d"
    /\ \E e \in WfEnvs :
          /\ Returned("obj_to_u3d", obj_to_u3d(fs, e, environ))
          /\ IF ret'.value = "True" THEN pc' = "u3d_to_pdf" /\ UNCHANGED exitStatus
             ELSE Exit("1")
    /\ UNCHANGED <<script, args, environ>>

\* Step 2: Create PDF with embedded U3D, and the end of main.
WfU3dToPdf ==
    /\ script = "example_workflow.py" /\ pc = "u3d_to_pdf"
    /\ \E import_ok \in BOOLEAN, e \in PdfEnvs :
          LET r == u3d_to_pdf(fs, import_ok, e)
          IN  /\ fs' = r.fs
              /\ ret' = [ret EXCEPT !.fn = "u3d_to_pdf", !.value = r.ret]
              /\ Exit(IF r.ret = "True" THEN "0" ELSE "1")
    /\ UNCHANGED <<script, args, environ, log>>

(***************************************************************************)
(* setup_pymeshlab_u3d.py                                                  *)
(***************************************************************************)
SetLocale(env) == [LC_ALL |-> LocaleValue, LANG |-> LocaleValue]

\* install_system_dependencies: on linux, False when apt fails; the
\* variables are set after the packages are installed.  A command that
\* cannot be launched raises out of run_command.
install_system_dependencies(system, env, apt) ==
    IF system # "linux" THEN [ret |-> "True", environ |-> env]
    ELSE IF apt = "missing" THEN [ret |-> "raise", environ |-> env]
    ELSE IF apt = "fail" THEN [ret |-> "False", environ |-> env]
    ELSE [ret |-> "True", environ |-> SetLocale(env)]

\* setup_locale: on linux /etc/locale.gen is appended to first; an
\* exception gives False and leaves the variables as they are.
setup_locale(system, env, locale_gen_ok) ==
    IF system = "linux" /\ ~locale_gen_ok THEN [ret |-> "False", environ |-> env]
    ELSE [ret |-> "True", environ |-> SetLocale(env)]

\* Step 1 of main.
SetupSystem ==
    /\ script = "setup_pymeshlab_u3d.py" /\ pc = "main"
    /\ \E apt \in RunOutcomes, locale_gen_ok \in BOOLEAN :
          LET i == install_system_dependencies(args.system, environ, apt)
              l == setup_locale(args.system, i.environ, locale_gen_ok)
          IN  /\ log' = IF args.system = "linux"
                        THEN Append(log, Launch("sudo apt update", "other", apt, environ))
                        ELSE log
              /\ IF i.ret = "raise" THEN Exit("1") /\ UNCHANGED environ
                 ELSE /\ environ' = l.environ
                      /\ pc' = "setup_idtf_converter"
                      /\ UNCHANGED exitStatus
    /\ UNCHANGED <<script, args, fs, ret>>

\* Steps 2 and 3 of main: PyMeshLab is checked or installed, the converter
\* is cloned and built.  Neither result is looked at.
SetupTools ==
    /\ script = "setup_pymeshlab_u3d.py" /\ pc = "setup_idtf_converter"
    /\ \E installed \in BOOLEAN, pip \in {"fail", "ok"}, git \in RunOutcomes,
          cmake \in RunOutcomes :
          /\ git # "ok" => cmake = "missing"
          /\ installed => pip = "fail"
          /\ ret' = [ret EXCEPT !.fn = "setup_idtf_converter", !.aux = installed \/ pip = "ok"]
          /\ log' = Append(log, Launch("git clone", "other", git, environ))
          /\ IF git = "missing" \/ (git = "ok" /\ cmake = "missing") THEN Exit("1")
             ELSE pc' = "test_u3d_export_pymeshlab" /\ UNCHANGED exitStatus
    /\ UNCHANGED <<script, args, fs, environ>>

SetupTestEnvs == [mesh_ok : BOOLEAN, direct : ExportOutcomes, import_ok : BOOLEAN,
                  ruby : {"installed", "missing"}, rb : RubyEnvs]

\* The launches l came before those of r.
After(l, r) == [r EXCEPT !.log = l \o r.log]

\* test_u3d_export_pymeshlab: every exception gives False.
test_u3d_export_pymeshlab(f, available, e, env) ==
    IF ~available \/ ~e.mesh_ok THEN [ret |-> "False", fs |-> f, log |-> <<>>]
    ELSE LET f0 == [f EXCEPT !["stl"] = File("mesh_stl", <<>>)]
             f1 == Exported(f0, e.direct)
             l1 == << Launch("save_current_mesh cube.u3d", "export",
                             IF e.direct = "raise" THEN "fail" ELSE "ok", env) >>
         IN  IF e.direct # "raise" /\ Exists(f1, "u3d") /\ GetSize(f1, "u3d") > 0
             THEN [ret |-> "True", fs |-> f1, log |-> l1]
             ELSE IF ~e.import_ok THEN [ret |-> "False", fs |-> f1, log |-> l1]
             ELSE After(l1, stl_convert_stl_to_u3d(f1, e.ruby, e.rb, env))

\* Step 4 of main; main returns whatever the test gave.
SetupTest ==
    /\ script = "setup_pymeshlab_u3d.py" /\ pc = "test_u3d_export_pymeshlab"
    /\ \E e \in SetupTestEnvs :
          Returned("test_u3d_export_pymeshlab", test_u3d_export_pymeshlab(fs, ret.aux, e, environ))
    /\ Exit("0")
    /\ UNCHANGED <<script, args, environ>>

Next ==
    \/ StlMainStart \/ StlMainConvert \/ StlMainEnd
    \/ PmlImport \/ PmlCheckU3dSupport \/ PmlEnsureLocaleSetup \/ PmlConvert \/ PmlMainEnd
    \/ ObjMainStart \/ ObjConstruct \/ ObjStep1 \/ ObjStep2 \/ ObjMainEnd
    \/ PipeMainStart \/ PipeFindBlender \/ PipeObjToStl \/ PipeStlToU3d
    \/ PdfMainStart \/ PdfPrepare \/ PdfEmbed \/ PdfMainEnd
    \/ WfCheckPymeshlab \/ WfObjToU3d \/ WfU3dToPdf
    \/ SetupSystem \/ SetupTools \/ SetupTest

Spec == Init /\ [][Next]_vars

(***************************************************************************)
(* Properties of the scripts.                                              *)
(***************************************************************************)
Done == pc = "exited"
U3dScripts == {"convert_obj_to_u3d.py", "convert_obj_u3d_pipeline.py",
               "convert_stl_to_u3d.py", "pymeshlab_u3d_example.py"}
PdfScripts == {"example_pdf.py", "example_workflow.py"}

\* Only --info was asked of convert_obj_u3d_pipeline.py.
InfoOnly == script = "convert_obj_u3d_pipeline.py" /\ args.info /\ ~args.obj_file

\* The output the script was asked for is there: a file at the U3D path,
\* a file at the PDF path, a passed export test.
Produced ==
    IF script \in U3dScripts THEN InfoOnly \/ Exists(fs, "u3d")
    ELSE IF script \in PdfScripts THEN Exists(fs, "pdf")
    ELSE ret.fn = "test_u3d_export_pymeshlab" /\ ret.value = "True"

\* C1: every script ends with exit status 1 whenever the output it was
\* asked to produce was not produced, and with exit status 0 only when that
\* output was produced.
C1_ExitStatusTellsOutput ==
    Done => /\ ~Produced => exitStatus = "1"
            /\ exitStatus = "0" => Produced

\* The 3D annotations of the first page of the PDF at path p.
Annots3D(p) ==
    LET page == fs[p].data[1]
    IN  {i \in 1..Len(page.Annots) : page.Annots[i]["Subtype"] = "3D"}

C4_PlaceholderMagicAndValid ==
    \A p \in Paths :
        fs[p].kind = "placeholder" =>
            /\ Prefix(fs[p].data, 4) = <<85, 51, 68, 0>>
            /\ MagicMatches(Prefix(fs[p].data, HeaderLen))
            /\ is_valid_u3d(fs, p)

\* create_placeholder_u3d has just written the output file.
C4_Witness ==
    /\ ret.fn = "create_placeholder_u3d" /\ ret.value = "True"
    /\ fs["u3d"].kind = "placeholder"

\* The script came to its conversion and no strategy gave a U3D file.
ConversionFailed ==
    CASE script = "convert_obj_to_u3d.py" ->
            ret.fn \in {"convert_obj_to_idtf", "convert_idtf_to_u3d"} /\ ret.value = None
      [] script = "convert_obj_u3d_pipeline.py" ->
            ret.fn \in {"convert_obj_to_stl", "convert_stl_to_u3d"} /\ ret.value # "True"
      [] script = "convert_stl_to_u3d.py" ->
            ret.fn = "create_placeholder_u3d" /\ ~args.placeholder
      [] script = "pymeshlab_u3d_example.py" ->
            ret.fn = "convert_to_u3d"
            /\ ~(ret.value = "True" /\ fs["u3d"].kind # "placeholder")
      [] OTHER -> FALSE

PmlFallbackFailed ==
    /\ script = "pymeshlab_u3d_example.py"
    /\ log # <<>> /\ Last(log).cmd = "ruby script" /\ Last(log).outcome # "ok"

AskedPlaceholder == script = "convert_stl_to_u3d.py" /\ args.placeholder

\* C6: unless the user asked for a placeholder, a run that ends with exit
\* status 0 has written a U3D file converted from the input mesh, never the
\* placeholder bytes nor a U3D compiled from substitute geometry.
C6_SuccessMeansConverted ==
    (Done /\ exitStatus = "0" /\ script \in U3dScripts /\ ~AskedPlaceholder /\ ~InfoOnly) =>
        fs["u3d"].kind = "converted"

\* The conversion functions that shell out, and the file each one makes.
ShellsOut == {"convert_obj_to_stl", "convert_stl_to_u3d", "convert_idtf_to_u3d"}
OutputOf(fn) == IF fn = "convert_obj_to_stl" THEN "stl" ELSE "u3d"
Success(value) == value \in {"True", "u3d"}

C9_RubyScriptIsWritten ==
    (script = "convert_obj_u3d_pipeline.py" /\ ret.fn = "convert_stl_to_u3d") =>
        /\ ret.value \in {"True", "False"}
        /\ \E i \in 1..Len(log) : log[i].cmd = "ruby script"

\* C10: in every script LC_ALL and LANG are both set before the first
\* operation that exports a U3D file or launches the external converter.
C10_LocaleSetBeforeExport ==
    \A i \in 1..Len(log) :
        log[i].kind \in {"export", "convert"} => LocaleSet(log[i].environ)

(***************************************************************************)
(* Temporary files.                                                        *)
(***************************************************************************)
\* The temporary Ruby script, the mkdtemp directory of ObjToU3dConverter
\* with what it holds, and what the TemporaryDirectory of create_3d_pdf holds.
TempPaths == {"script", "temp_dir", "temp_obj", "temp_pdf", "dummy_u3d"}
KeepFlag == script = "convert_obj_to_u3d.py" /\ args.keep_idtf

\* C11: when a run has ended and no keep flag was given, nothing a script
\* created as a temporary file or directory exists any more.
C11_TemporariesGone ==
    Done /\ ~KeepFlag => \A p \in TempPaths : ~Exists(fs, p)

\* convert_obj_to_u3d.py has ended after step 1 wrote the IDTF file of the
\* input and step 2 was called.
IdtfGenerated ==
    /\ Done /\ script = "convert_obj_to_u3d.py"
    /\ ret.fn = "convert_idtf_to_u3d"

\* C12: when convert_obj_to_u3d.py has ended after generating the IDTF file
\* of its input, that file exists exactly when --keep-idtf was given.
C12_KeepIdtfDecides ==
    IdtfGenerated => (Exists(fs, "idtf") <=> args.keep_idtf)

(***************************************************************************)
(* convert_stl_to_u3d.py main.                                             *)
(***************************************************************************)
StlDone == Done /\ script = "convert_stl_to_u3d.py"
PlaceholderAt(p) == fs[p] = File("placeholder", FromHex(PlaceholderHex))
Untouched == fs = InitialFs(args) /\ log = <<>>
StlConverted == ret.fn = "convert_stl_to_u3d" /\ ret.value = "True"

C14_FindTerminates ==
    script = "find_idtf_converter" /\ pc # "call" => pc = "returned" /\ ret.value # Hang

(***************************************************************************)
(* The block structure of an IDTF text, read from left to right.           *)
(***************************************************************************)
\* The braces a line adds to the nesting depth.
BraceDelta(l) ==
    IF l.t = "open" THEN l.n ELSE IF l.t = "close" THEN 0 - l.n ELSE 0

\* The nesting depth after the first j lines.
RECURSIVE DepthAfter(_, _)
DepthAfter(text, j) ==
    IF j = 0 THEN 0 ELSE DepthAfter(text, j - 1) + BraceDelta(text[j])

Balanced(text) ==
    /\ \A j \in 1..Len(text) : DepthAfter(text, j) >= 0
    /\ DepthAfter(text, Len(text)) = 0

\* C15: the text create_idtf_from_obj writes on its normal path is balanced
\* like the fallback text: the depth is never negative and is 0 at the end.
C15_BracesBalanced ==
    IdtfDone /\ fs["idtf"].kind = "idtf" => Balanced(fs["idtf"].data)

(***************************************************************************)
(* convert_idtf_to_u3d: the command and the kind of the tool.              *)
(***************************************************************************)
\* The u3d gem executable: the command name and the paths under which
\* find_idtf_converter looks for it.
U3dGemPaths ==
    {"u3d"} \cup {Str(possible_paths[i]) :
                     i \in {j \in 1..Len(possible_paths) : possible_paths[j].name = "u3d"}}
GemCommands == {"ruby script", "u3d convert", "gem IDTFConverter"}
ObjConversions ==
    IF script = "convert_obj_to_u3d.py"
    THEN {i \in 1..Len(log) : log[i].kind = "convert"} ELSE {}

\* C16: the tool is invoked with the syntax of its kind: the u3d gem
\* executable, however it was found, is run through the gem-specific commands,
\* and the positional form <tool> <idtf> <u3d> is used for an IDTFConverter
\* binary only.
C16_SyntaxOfToolKind ==
    \A i \in ObjConversions :
        IF ret.aux \in U3dGemPaths THEN log[i].cmd \in GemCommands
        ELSE log[i].cmd = ret.aux

\* convert_idtf_to_u3d has run with the u3d gem and its version query
\* exited with 0.
GemVersionAnswered ==
    /\ script = "convert_obj_to_u3d.py"
    /\ ret.fn = "convert_idtf_to_u3d" /\ ret.aux = "u3d"
    /\ \E i \in 1..Len(log) : log[i].cmd = "u3d -version" /\ log[i].outcome = "ok"

\* C17: with the u3d gem and a version query that succeeded, the first
\* conversion command that is run is `ruby <script>`.
C17_RubyScriptFirst ==
    GemVersionAnswered =>
        /\ ObjConversions # {}
        /\ \A i \in ObjConversions :
              (\A j \in ObjConversions : i <= j) => log[i].cmd = "ruby script"

(***************************************************************************)
(* ObjToU3dConverter.convert_obj_to_u3d.                                   *)
(***************************************************************************)
\* The step that calls convert_idtf_to_u3d.
CallsStep2 == ret'.fn = "convert_idtf_to_u3d" /\ ret.fn # "convert_idtf_to_u3d"
\* What convert_obj_to_u3d returns to main.
MethodResult == IF ret.fn = "convert_idtf_to_u3d" THEN ret.value ELSE None

\* C18: convert_idtf_to_u3d is called only when convert_obj_to_idtf has just
\* returned a path, and convert_obj_to_u3d returns a path only if step 2
\* returned one and the U3D file existed when step 2 checked it.
C18_TwoStepsInOrder ==
    [][script = "convert_obj_to_u3d.py" =>
          /\ CallsStep2 => ret.fn = "convert_obj_to_idtf" /\ ret.value # None
          /\ ret.fn = "convert_obj_to_idtf" /\ ret.value = None => ~CallsStep2
          /\ MethodResult' # None =>
                ret'.fn = "convert_idtf_to_u3d" /\ Exists(fs', "u3d")]_vars

\* Both steps returned a path.
C18_Witness ==
    /\ script = "convert_obj_to_u3d.py" /\ pc = "cleanup"
    /\ MethodResult # None /\ Exists(fs, "idtf") /\ Exists(fs, "u3d")

\* C19: convert_obj_to_idtf returns a path only when the IDTF file was
\* generated from the loaded mesh; after an error in create_idtf_from_obj it
\* returns None.
C19_PathMeansGenerated ==
    /\ script = "convert_obj_to_u3d.py"
    /\ ret.fn = "convert_obj_to_idtf" /\ ret.value # None
    => fs["idtf"].kind = "idtf"

\* C20: when no converter was found, the call of convert_idtf_to_u3d
\* launches nothing, leaves every file as it is and returns None; then
\* convert_obj_to_u3d returns None and the IDTF file of step 1 is on disk.
C20_NoConverterNoEffect ==
    [][script = "convert_obj_to_u3d.py" /\ CallsStep2 /\ ret.aux = None =>
          /\ ret'.value = None /\ MethodResult' = None
          /\ log' = log /\ fs' = fs
          /\ Exists(fs', "idtf")]_vars

\* Step 2 was called with no converter.
C20_Witness ==
    /\ script = "convert_obj_to_u3d.py" /\ pc = "cleanup"
    /\ ret.fn = "convert_idtf_to_u3d" /\ ret.aux = None
    /\ Exists(fs, "idtf")

(***************************************************************************)
(* SpecAlt: convert_stl_to_u3d of convert_obj_u3d_pipeline.py from the     *)
(* point where the Ruby script has returned non-zero and has been          *)
(* unlinked.  args.e says what the launches meet.                          *)
(***************************************************************************)
AlternativeCommands == << "u3d convert --input --output", "u3d --input --output", "stl2u3d" >>
AltArgs == [e : {e \in PipelineEnvs : e.ruby.outcome = "fail"},
            writable : BOOLEAN, stale : BOOLEAN]

InitAlt ==
    /\ script = "convert_stl_to_u3d"
    /\ pc = "ruby failed"
    /\ args \in AltArgs
    /\ fs = [EmptyFs EXCEPT !["stl"] = File("mesh_stl", <<>>),
                            !["u3d"] = IF args.stale THEN File("stale", ConvertedU3d)
                                       ELSE Wrote(EmptyFs, args.e.ruby, args.writable, "u3d",
                                                  File("converted", ConvertedU3d))["u3d"]]
    /\ environ = NoEnviron
    /\ exitStatus = "running"
    /\ log = << Launch("ruby script", "convert", "fail", environ) >>
    /\ ret = [fn |-> None, value |-> None, aux |-> None]

TryAlternatives ==
    /\ script = "convert_stl_to_u3d" /\ pc = "ruby failed"
    /\ Returned("convert_stl_to_u3d",
                PipelineAlternatives(fs, AlternativeCommands,
                                     << args.e.alt1, args.e.alt2, args.e.alt3 >>,
                                     args.writable, environ, <<>>))
    /\ pc' = "returned"
    /\ UNCHANGED <<script, args, environ, exitStatus>>

NextAlt == TryAlternatives

SpecAlt == InitAlt /\ [][NextAlt]_vars

\* The alternatives that were launched, in the order of their launch.
Attempts == SubSeq(log, 2, Len(log))
AltReturned == script = "convert_stl_to_u3d" /\ pc = "returned"

RubyArgs == [e : RubyEnvs, stale : BOOLEAN, writable : BOOLEAN]

InitRuby ==
    /\ script = "ruby script"
    /\ pc = "start"
    /\ args \in RubyArgs
    /\ fs = [EmptyFs EXCEPT !["stl"] = File("mesh_stl", <<>>),
                            !["script"] = File("script", <<>>),
                            !["u3d"] = IF args.stale THEN File("stale", ConvertedU3d) ELSE Absent]
    /\ environ = NoEnviron
    /\ exitStatus = "running"
    /\ log = <<>>
    /\ ret = [rc |-> None, tried |-> <<>>]

RunRubyScript ==
    /\ script = "ruby script" /\ pc = "start"
    /\ LET r == RubyScript(fs, IF args.writable THEN args.e ELSE Dry(args.e))
       IN  /\ fs' = r.fs
           /\ ret' = [rc |-> r.rc, tried |-> r.tried]
           /\ exitStatus' = IF r.rc = 0 THEN "0" ELSE "1"
    /\ pc' = "exited"
    /\ UNCHANGED <<script, args, environ, log>>

NextRuby == RunRubyScript

SpecRuby == InitRuby /\ [][NextRuby]_vars

RubyExited == script = "ruby script" /\ pc = "exited"

\* C22: the Ruby script tries its methods in the order 1, 2, 3, a later one
\* whenever the earlier ones did not succeed, and it ends with status 1 only
\* after all three were tried, also when the u3d gem cannot be loaded.
C22_AllMethodsTried ==
    RubyExited =>
        /\ \A i \in 1..Len(ret.tried) : ret.tried[i] = i
        /\ exitStatus = "1" => ret.tried = <<1, 2, 3>>

(***************************************************************************)
(* Output files left by an earlier run.                                    *)
(***************************************************************************)
\* The functions that check for their output file, and that file.
ChecksOutput == ShellsOut \cup {"u3d_to_pdf"}
CheckedOutput(fn) == IF fn = "u3d_to_pdf" THEN "pdf" ELSE OutputOf(fn)

\* C23: a function that checks for its output file reports success only if
\* this run wrote the file: it does not report success while the file at the
\* output path is still the one that was there before the call.
C23_SuccessMeansWritten ==
    ret.fn \in ChecksOutput /\ Success(ret.value) =>
        fs[CheckedOutput(ret.fn)].kind # "stale"

(***************************************************************************)
(* pymeshlab_u3d_example.convert_to_u3d and its input file.                *)
(***************************************************************************)
PmlReturned == script = "pymeshlab_u3d_example.py" /\ ret.fn = "convert_to_u3d"

\* C24: after convert_to_u3d the input file exists with the content it had
\* before the call, whatever the input and output paths are.
C24_InputUntouched ==
    PmlReturned => fs["input"] = InitialFs(args)["input"]

\* C25: the call of ensure_locale_setup leaves both LC_ALL and LANG defined
\* and keeps the value of each one that was defined before the call.
C25_OnlyFillsMissing ==
    [][script = "pymeshlab_u3d_example.py" /\ pc = "ensure_locale_setup" =>
          /\ LocaleSet(environ')
          /\ \A v \in {"LC_ALL", "LANG"} : environ[v] # Unset => environ'[v] = environ[v]]_vars

====
